---- MODULE Spec2Model ----
(***************************************************************************)
(* The contribution validator of utils/build_package/validate.py:          *)
(* test_contrib run by pytest once per entry of the contributions root,    *)
(* with the fixtures contrib and pre_build.  One action per statement (or  *)
(* per numbered check) of test_contrib; what a contribution's files,       *)
(* module and metadata document answer is drawn when the code reads it.    *)
(***************************************************************************)
EXTENDS Integers, Sequences, FiniteSets

\* ------------------------------------------------------------- bounds
MaxContribs == 2    \* entries of the contributions root
MaxExamples == 2    \* records of the metadata `examples` sequence
MaxItems == 1       \* elements of `contacts` and of `extra_websites`
MaxParts == 3       \* parts of the value forward(model, with_jacobian=True) returns

\* ---------------------------------------------------------- constants
CONTRIB_FOLDER == "contrib"
MainFile == "<contrib_name>.py"
required_files == <<"README.md", "LICENCE", "metadata.yml", "__init__.py">>
std_funcs ==
    <<"set_example_number", "suggested_model", "data", "forward",
      "jacobian", "plot_model", "plot_data">>
RequiredKeys == <<"name", "short_description", "authors", "examples">>
ExampleKeys == {"description", "model_dimension", "data_dimension"}
CitationKeys == {"doi"}
ContactKeys == {"name", "email"}
WebsiteKeys == {"name", "link"}
Program == "utils/build_package/validate.py"
\* sys.argv as main() leaves it: the program, then what the user passed
Argvs ==
    {<<Program>>, <<Program, "pre">>, <<Program, "post">>, <<Program, "both">>}
SysPath0 == <<"utils/build_package", "site-packages">>

Range(s) == {s[j] : j \in 1..Len(s)}
SeqsUpTo(S, n) == UNION {[1..m -> S] : m \in 0..n}

VARIABLES
    argv,        \* sys.argv
    contribs,    \* all_contribs(): the entries of the contributions root
    conforming,  \* contribution -> whether everything it answers meets the contract
    todo,        \* parametrised tests pytest has not run yet
    results,     \* pytest's report: contribution -> none | passed | failed | error
    sysPath,     \* sys.path
    pc,          \* position in the test being run
    frame,       \* the locals of test_contrib and its fixtures
    log,         \* history: what the running test did to the contribution, in order
    touched,     \* history: the arguments of its set_example_number calls, in order
    last,        \* history: outcome of the latest call (into the module, yaml.safe_load)
    passed,      \* history: the numbered checks the running test has passed
    failedAt,    \* history: the numbered check that failed (0: none)
    msg,         \* history: the message of the failure ("" for a bare one)
    ret,         \* history: what suggested_model(), data() and forward(model) returned
    implemented, \* history: an optional function returned instead of signalling
    loads,       \* history: executions of the module-loading step, whole run
    configError  \* history: pre_build raised its ValueError

vars == <<argv, contribs, conforming, todo, results, sysPath, pc, frame, log, touched, last,
          passed, failedAt, msg, ret, implemented, loads, configError>>

run == <<argv, contribs, conforming, todo>>
NoReturns == [suggested_model |-> "unset", data |-> "unset", forward |-> "unset"]

\* meta_data: the mapping yaml.safe_load returns, as far as the test has read it:
\* the keys found present, and under each key the sub-keys of its elements
NoDocument ==
    [kind |-> "unset", keys |-> {}, examples |-> <<>>, citation |-> {},
     contacts |-> <<>>, extra_websites |-> <<>>]
NoCall == [kind |-> "none", parts |-> <<>>]
NoFrame ==
    [contrib_name |-> 0, pre_build |-> TRUE, listed |-> FALSE, names |-> {},
     has_all |-> FALSE, all |-> {}, model |-> "unset", data |-> "unset",
     synthetics |-> "unset",
     meta_data |-> NoDocument, n_examples |-> 0, i |-> 0, st_size |-> -1]

Init ==
    /\ argv \in Argvs
    /\ \E k \in 0..MaxContribs : contribs = 1..k
    /\ conforming \in [contribs -> BOOLEAN]
    /\ todo = contribs
    /\ results = [c \in contribs |-> "none"]
    /\ sysPath = SysPath0
    /\ pc = "idle"
    /\ frame = NoFrame
    /\ log = <<>>
    /\ touched = <<>>
    /\ last = NoCall
    /\ passed = {}
    /\ failedAt = 0
    /\ msg = ""
    /\ ret = NoReturns
    /\ implemented = FALSE
    /\ loads = 0
    /\ configError = FALSE

\* ------------------------------------------- the interface contract
\* what a call into the module can hand back
Values == {"array", "scalar", "figure"}

\* aspects 1 and 2: the main file and the four required files
ConformingListing(ns) == MainFile \in ns /\ Range(required_files) \subseteq ns
\* aspect 3: an __all__ exposing the seven standard functions
ConformingModule(has, names) == has /\ Range(std_funcs) \subseteq names
\* aspect 4: numpy.ndarray | pandas.Series | list
ConformingArray(v) == v = "array"
\* aspect 5: a tuple of two such values; a matplotlib.figure.Figure
ConformingPair(r) ==
    /\ r.kind = "tuple"
    /\ Len(r.parts) = 2
    /\ \A j \in 1..Len(r.parts) : ConformingArray(r.parts[j])
ConformingFigure(v) == v = "figure"
\* aspect 6: every element of a section carries the section's sub-keys
ConformingElements(elements, subkeys) ==
    \A j \in 1..Len(elements) : \A k \in subkeys : k \in elements[j]
\* aspect 8: the LICENCE file is not empty
ConformingLicence(size) == size > 0

\* A contribution is the same for the whole run: a conforming one answers every
\* read and every call within the contract, any other one answers at least once
\* outside it.
Honest(good) == conforming[frame.contrib_name] => good

\* ------------------------------------------------------- the harness
\* a bug: the run stops at the first contribution that fails (one loop over the
\* contributions instead of one parametrised test each)
StartTest_StopsAtFailure ==
    /\ pc \in {"idle", "end"}
    /\ \A c \in contribs : results[c] # "failed"
    /\ \E c \in todo :
        /\ todo' = todo \ {c}
        /\ frame' = [NoFrame EXCEPT !.contrib_name = c]
    /\ pc' = "pre_build"
    /\ log' = <<>>
    /\ touched' = <<>>
    /\ last' = NoCall
    /\ passed' = {}
    /\ failedAt' = 0
    /\ msg' = ""
    /\ ret' = NoReturns
    /\ implemented' = FALSE
    /\ UNCHANGED <<argv, contribs, conforming, results, sysPath, loads, configError>>

\* pytest takes the next parameter of the contrib fixture
StartTest ==
    /\ pc \in {"idle", "end"}
    /\ \E c \in todo :
        /\ todo' = todo \ {c}
        /\ frame' = [NoFrame EXCEPT !.contrib_name = c]
    /\ pc' = "pre_build"
    /\ log' = <<>>
    /\ touched' = <<>>
    /\ last' = NoCall
    /\ passed' = {}
    /\ failedAt' = 0
    /\ msg' = ""
    /\ ret' = NoReturns
    /\ implemented' = FALSE
    /\ UNCHANGED <<argv, contribs, conforming, results, sysPath, loads, configError>>

\* the report of the running test
Report(outcome) == [results EXCEPT ![frame.contrib_name] = outcome]

\* an assertion of check k fails, or a call made in check k raises
Fail(k, m) ==
    /\ pc' = "end"
    /\ results' = Report("failed")
    /\ failedAt' = k
    /\ msg' = m

Pass(k, next) ==
    /\ pc' = next
    /\ passed' = passed \cup {k}
    /\ UNCHANGED <<results, failedAt, msg>>

Goto(next) ==
    /\ pc' = next
    /\ UNCHANGED <<results, failedAt, msg, passed>>

\* the pre_build fixture
ArgvValid(a) == ~(Len(a) > 1 /\ a[Len(a)] \notin {"pre", "post"})
PreBuildValue(a) == (IF Len(a) > 1 THEN a[Len(a)] ELSE "pre") = "pre"

PreBuild ==
    /\ pc = "pre_build"
    /\ IF ArgvValid(argv)
       THEN /\ frame' = [frame EXCEPT !.pre_build = PreBuildValue(argv)]
            /\ pc' = "listdir"
            /\ UNCHANGED <<results, configError, msg>>
       ELSE /\ pc' = "end"
            /\ results' = Report("error")
            /\ configError' = TRUE
            /\ msg' = "Please either pass pre or post as the only argument"
            /\ UNCHANGED frame
    /\ UNCHANGED <<run, sysPath, log, touched, last, passed, failedAt, ret, implemented, loads>>

\* ------------------------------------------------- checks 1 and 2
\* get_folder_content(contrib_sub_folder): what os.listdir answers
Listings == SUBSET (Range(required_files) \cup {MainFile})

ListDir ==
    /\ pc = "listdir"
    /\ log' = Append(log, "listdir")
    /\ \/ \E ns \in Listings :
            /\ Honest(ConformingListing(ns))
            /\ frame' = [frame EXCEPT !.listed = TRUE, !.names = ns]
            /\ Goto("check1")
       \/ \* the entry of the contributions root is no folder: os.listdir raises
          /\ Honest(FALSE)
          /\ Fail(1, "NotADirectoryError")
          /\ UNCHANGED <<frame, passed>>
    /\ UNCHANGED <<run, sysPath, touched, last, ret, implemented, loads, configError>>

\* 1 - assert f"{contrib_name}.py" in names
Check1Holds(ns) == MainFile \in ns

Check1 ==
    /\ pc = "check1"
    /\ IF Check1Holds(frame.names)
       THEN Pass(1, "check2")
       ELSE Fail(1, "") /\ UNCHANGED passed
    /\ UNCHANGED <<run, sysPath, frame, log, touched, last, ret, implemented, loads, configError>>

\* a bug: the loop reports the last missing file instead of stopping at the first
FirstMissing_Last(ns) ==
    LET miss == {j \in 1..Len(required_files) : required_files[j] \notin ns}
    IN IF miss = {} THEN 0 ELSE CHOOSE j \in miss : \A k \in miss : j >= k

\* 2 - for file in required_files: assert file in names, f"{file} is required ..."
\* the first file of the loop the assertion fails for, 0 when none does
FirstMissing(ns) ==
    LET miss == {j \in 1..Len(required_files) : required_files[j] \notin ns}
    IN IF miss = {} THEN 0 ELSE CHOOSE j \in miss : \A k \in miss : j <= k

Check2 ==
    /\ pc = "check2"
    /\ LET j == FirstMissing(frame.names)
       IN IF j = 0
          THEN Pass(2, "import")
          ELSE Fail(2, required_files[j]) /\ UNCHANGED passed
    /\ UNCHANGED <<run, sysPath, frame, log, touched, last, ret, implemented, loads, configError>>

\* ------------------------------------------------------------ check 3
\* a variant: the entry is inserted only when sys.path lacks it
PathInsert_IfAbsent(path, index, x) ==
    IF x \in {path[j] : j \in 1..Len(path)} THEN path
    ELSE SubSeq(path, 1, index) \o <<x>> \o SubSeq(path, index + 1, Len(path))

\* list.insert(index, x) of Python, index >= 0
PathInsert(path, index, x) ==
    LET at == IF index < Len(path) THEN index ELSE Len(path)
    IN SubSeq(path, 1, at) \o <<x>> \o SubSeq(path, at + 1, Len(path))

\* __import__(contrib_name) finds a contribution by its bare name only through
\* the contributions root on sys.path; importlib.import_module goes through the
\* installed package
ModuleFound(pre, path) == pre => CONTRIB_FOLDER \in Range(path)

Import ==
    /\ pc = "import"
    /\ log' = Append(log, "import")
    /\ loads' = loads + 1
    /\ sysPath' = IF frame.pre_build THEN PathInsert(sysPath, 1, CONTRIB_FOLDER)
                  ELSE sysPath
    /\ \E importable \in BOOLEAN :
        /\ Honest(importable)
        /\ IF importable /\ ModuleFound(frame.pre_build, sysPath')
           THEN /\ \E has \in BOOLEAN, names \in SUBSET Range(std_funcs) :
                    /\ has \/ names = {}
                    /\ Honest(ConformingModule(has, names))
                    /\ frame' = [frame EXCEPT !.has_all = has, !.all = names]
                /\ Goto("check3")
           ELSE /\ Fail(3, "ImportError")
                /\ UNCHANGED <<frame, passed>>
    /\ UNCHANGED <<run, touched, last, ret, implemented, configError>>

\* a bug: one exposed standard function is taken for all of them
Check3Holds_AnyName(has, names) ==
    has /\ \E j \in 1..Len(std_funcs) : std_funcs[j] \in names

\* for fun in std_funcs: assert fun in contrib_mod.__all__
Check3Holds(has, names) == has /\ \A j \in 1..Len(std_funcs) : std_funcs[j] \in names

Check3 ==
    /\ pc = "check3"
    /\ IF Check3Holds(frame.has_all, frame.all)
       THEN Pass(3, "set_example_number")
       ELSE Fail(3, "") /\ UNCHANGED passed
    /\ UNCHANGED <<run, sysPath, frame, log, touched, last, ret, implemented, loads, configError>>

\* ------------------------------------------------------------ check 4
Ndim(obj) == IF obj = "array" THEN 1 ELSE 0
_array_like(obj) == Ndim(obj) # 0
IsFigure(obj) == obj = "figure"

Returned(v) == [kind |-> "value", parts |-> <<v>>]
Raised(e) == [kind |-> e, parts |-> <<>>]

\* contrib_mod.set_example_number(0)
SetExampleNumber0 ==
    /\ pc = "set_example_number"
    /\ log' = Append(log, "set_example_number")
    /\ touched' = Append(touched, 0)
    /\ \/ /\ Honest(FALSE)
          /\ last' = Raised("Exception")
          /\ Fail(4, "Exception")
          /\ UNCHANGED passed
       \/ /\ last' = [kind |-> "value", parts |-> <<>>]
          /\ Goto("suggested_model")
    /\ UNCHANGED <<run, sysPath, frame, ret, implemented, loads, configError>>

\* _model = contrib_mod.suggested_model()
SuggestedModel ==
    /\ pc = "suggested_model"
    /\ log' = Append(log, "suggested_model")
    /\ \/ /\ Honest(FALSE)
          /\ last' = Raised("Exception")
          /\ Fail(4, "Exception")
          /\ UNCHANGED <<frame, ret, passed>>
       \/ \E v \in Values :
            /\ Honest(ConformingArray(v))
            /\ last' = Returned(v)
            /\ frame' = [frame EXCEPT !.model = v]
            /\ ret' = [ret EXCEPT !.suggested_model = v]
            /\ Goto("data")
    /\ UNCHANGED <<run, sysPath, touched, implemented, loads, configError>>

\* _data = contrib_mod.data()
Data ==
    /\ pc = "data"
    /\ log' = Append(log, "data")
    /\ \/ /\ Honest(FALSE)
          /\ last' = Raised("Exception")
          /\ Fail(4, "Exception")
          /\ UNCHANGED <<frame, ret, passed>>
       \/ \E v \in Values :
            /\ Honest(ConformingArray(v))
            /\ last' = Returned(v)
            /\ frame' = [frame EXCEPT !.data = v]
            /\ ret' = [ret EXCEPT !.data = v]
            /\ Goto("forward")
    /\ UNCHANGED <<run, sysPath, touched, implemented, loads, configError>>

\* _synthetics = contrib_mod.forward(_model)
Forward ==
    /\ pc = "forward"
    /\ log' = Append(log, "forward")
    /\ \/ /\ Honest(FALSE)
          /\ last' = Raised("Exception")
          /\ Fail(4, "Exception")
          /\ UNCHANGED <<frame, ret, passed>>
       \/ \E v \in Values :
            /\ Honest(ConformingArray(v))
            /\ last' = Returned(v)
            /\ frame' = [frame EXCEPT !.synthetics = v]
            /\ ret' = [ret EXCEPT !.forward = v]
            /\ Goto("assert4")
    /\ UNCHANGED <<run, sysPath, touched, implemented, loads, configError>>

\* a bug: the assertion on _model is left out
Check4Holds_SkipsModel(f) == _array_like(f.data) /\ _array_like(f.synthetics)

\* assert _array_like(_model); assert _array_like(_data); assert _array_like(_synthetics)
Check4Holds(f) == _array_like(f.model) /\ _array_like(f.data) /\ _array_like(f.synthetics)

Assert4 ==
    /\ pc = "assert4"
    /\ IF Check4Holds(frame)
       THEN Pass(4, "forward_with_jacobian")
       ELSE Fail(4, "") /\ UNCHANGED passed
    /\ UNCHANGED <<run, sysPath, frame, log, touched, last, ret, implemented, loads,
                   configError>>

\* ------------------------------------------------------------ check 5
\* try: ... except NotImplementedError: pass
Swallow ==
    /\ last' = Raised("NotImplementedError")
    /\ UNCHANGED <<frame, implemented>>

\* any other exception leaves the test
Propagate ==
    /\ Honest(FALSE)
    /\ last' = Raised("Exception")
    /\ Fail(5, "Exception")
    /\ UNCHANGED <<frame, implemented, passed>>

\* a bug: the assertion on _jacobian is left out
PairHolds_FirstOnly(r) == _array_like(r.parts[1])

\* _synthetics, _jacobian = ... : the right-hand side unpacks into exactly two parts
Unpacks(r) == r.kind = "tuple" /\ Len(r.parts) = 2
PairHolds(r) == _array_like(r.parts[1]) /\ _array_like(r.parts[2])

\* What the call returns is either an object that cannot be iterated (a bare
\* number, a figure: the unpacking raises TypeError) or an iterable, given by its
\* parts (a tuple, a list, the rows of an array: the unpacking raises ValueError
\* unless there are two).
\* try: _synthetics, _jacobian = contrib_mod.forward(_model, with_jacobian=True)
\* except NotImplementedError: pass
\* else: assert _array_like(_synthetics); assert _array_like(_jacobian)
ForwardWithJacobian ==
    /\ pc = "forward_with_jacobian"
    /\ log' = Append(log, "forward_with_jacobian")
    /\ \/ Swallow /\ Goto("jacobian")
       \/ Propagate
       \/ \E r \in {Returned(v) : v \in Values \ {"array"}}
                   \cup {[kind |-> "tuple", parts |-> ps] :
                            ps \in SeqsUpTo(Values, MaxParts)} :
            /\ Honest(ConformingPair(r))
            /\ last' = r
            /\ implemented' = TRUE
            /\ IF ~Unpacks(r)
               THEN Fail(5, "cannot unpack") /\ UNCHANGED <<frame, passed>>
               ELSE /\ frame' = [frame EXCEPT !.synthetics = r.parts[1]]
                    /\ IF PairHolds(r)
                       THEN Goto("jacobian")
                       ELSE Fail(5, "") /\ UNCHANGED passed
    /\ UNCHANGED <<run, sysPath, touched, ret, loads, configError>>

\* try: _jacobian = contrib_mod.jacobian(_model) ... else: assert _array_like(_jacobian)
Jacobian ==
    /\ pc = "jacobian"
    /\ log' = Append(log, "jacobian")
    /\ \/ Swallow /\ Goto("plot_model")
       \/ Propagate
       \/ \E v \in Values :
            /\ Honest(ConformingArray(v))
            /\ last' = Returned(v)
            /\ implemented' = TRUE
            /\ IF _array_like(v)
               THEN Goto("plot_model")
               ELSE Fail(5, "") /\ UNCHANGED passed
            /\ UNCHANGED frame
    /\ UNCHANGED <<run, sysPath, touched, ret, loads, configError>>

\* try: _fig_model = contrib_mod.plot_model(_model) ...
\* else: assert isinstance(_fig_model, Figure)
PlotModel ==
    /\ pc = "plot_model"
    /\ log' = Append(log, "plot_model")
    /\ \/ Swallow /\ Goto("plot_data")
       \/ Propagate
       \/ \E v \in Values :
            /\ Honest(ConformingFigure(v))
            /\ last' = Returned(v)
            /\ implemented' = TRUE
            /\ IF IsFigure(v)
               THEN Goto("plot_data")
               ELSE Fail(5, "") /\ UNCHANGED passed
            /\ UNCHANGED frame
    /\ UNCHANGED <<run, sysPath, touched, ret, loads, configError>>

\* try: _fig_data = contrib_mod.plot_data(_data) ...
\* else: assert isinstance(_fig_data, Figure)
PlotData ==
    /\ pc = "plot_data"
    /\ log' = Append(log, "plot_data")
    /\ \/ Swallow /\ Pass(5, "metadata")
       \/ Propagate
       \/ \E v \in Values :
            /\ Honest(ConformingFigure(v))
            /\ last' = Returned(v)
            /\ implemented' = TRUE
            /\ IF IsFigure(v)
               THEN Pass(5, "metadata")
               ELSE Fail(5, "") /\ UNCHANGED passed
            /\ UNCHANGED frame
    /\ UNCHANGED <<run, sysPath, touched, ret, loads, configError>>

\* ------------------------------------------------------------ check 6
\* with open(...) as stream: meta_data = yaml.safe_load(stream)
LoadMetadata ==
    /\ pc = "metadata"
    /\ log' = Append(log, "metadata")
    /\ \/ /\ Honest(FALSE)
          /\ last' = Raised("YAMLError")
          /\ Fail(6, "YAMLError")
          /\ UNCHANGED <<frame, passed>>
       \/ \E k \in {"mapping", "null"} :
            /\ Honest(k = "mapping")
            /\ last' = Returned(k)
            /\ frame' = [frame EXCEPT !.meta_data.kind = k]
            /\ Goto("required_keys")
    /\ UNCHANGED <<run, sysPath, touched, ret, implemented, loads, configError>>

\* for k in ["name", "short_description", "authors", "examples"]: assert k in meta_data
RequiredKeysHold(doc) ==
    doc.kind = "mapping" /\ \A j \in 1..Len(RequiredKeys) : RequiredKeys[j] \in doc.keys

CheckRequiredKeys ==
    /\ pc = "required_keys"
    /\ \E present \in SUBSET Range(RequiredKeys) :
        /\ frame.meta_data.kind # "mapping" => present = {}
        /\ Honest(present = Range(RequiredKeys))
        /\ frame' = [frame EXCEPT !.meta_data.keys = present]
    /\ IF RequiredKeysHold(frame'.meta_data)
       THEN Goto("examples")
       ELSE Fail(6, "") /\ UNCHANGED passed
    /\ UNCHANGED <<run, sysPath, log, touched, last, ret, implemented, loads,
                   configError>>

\* a bug: only the first element of a section is looked at
ElementsHold_FirstOnly(elements, subkeys) ==
    Len(elements) > 0 => subkeys \subseteq elements[1]

\* every element of a section has every sub-key the section requires
ElementsHold(elements, subkeys) ==
    \A j \in 1..Len(elements) : subkeys \subseteq elements[j]

\* n_examples = len(meta_data["examples"]); for example in meta_data["examples"]: ...
CheckExamples ==
    /\ pc = "examples"
    /\ \E es \in SeqsUpTo(SUBSET ExampleKeys, MaxExamples) :
        /\ Honest(ConformingElements(es, ExampleKeys))
        /\ frame' = [frame EXCEPT !.meta_data.examples = es, !.n_examples = Len(es)]
    /\ IF ElementsHold(frame'.meta_data.examples, ExampleKeys)
       THEN Goto("citation")
       ELSE Fail(6, "") /\ UNCHANGED passed
    /\ UNCHANGED <<run, sysPath, log, touched, last, ret, implemented, loads,
                   configError>>

\* if "citation" in meta_data: assert "doi" in meta_data["citation"]
CitationHolds(doc) == "citation" \in doc.keys => CitationKeys \subseteq doc.citation

CheckCitation ==
    /\ pc = "citation"
    /\ \/ UNCHANGED frame
       \/ \E c \in SUBSET CitationKeys :
            /\ Honest(c = CitationKeys)
            /\ frame' = [frame EXCEPT !.meta_data.keys = @ \cup {"citation"},
                                   !.meta_data.citation = c]
    /\ IF CitationHolds(frame'.meta_data)
       THEN Goto("contacts")
       ELSE Fail(6, "") /\ UNCHANGED passed
    /\ UNCHANGED <<run, sysPath, log, touched, last, ret, implemented, loads,
                   configError>>

\* a bug: the assertion on email is left out
ContactsHold_NameOnly(doc) ==
    "contacts" \in doc.keys =>
        \A j \in 1..Len(doc.contacts) : "name" \in doc.contacts[j]

\* if "contacts" in meta_data: for contact in ...: assert "name" ...; assert "email" ...
ContactsHold(doc) ==
    "contacts" \in doc.keys => ElementsHold(doc.contacts, ContactKeys)

CheckContacts ==
    /\ pc = "contacts"
    /\ \/ UNCHANGED frame
       \/ \E cs \in SeqsUpTo(SUBSET ContactKeys, MaxItems) :
            /\ Honest(ConformingElements(cs, ContactKeys))
            /\ frame' = [frame EXCEPT !.meta_data.keys = @ \cup {"contacts"},
                                   !.meta_data.contacts = cs]
    /\ IF ContactsHold(frame'.meta_data)
       THEN Goto("extra_websites")
       ELSE Fail(6, "") /\ UNCHANGED passed
    /\ UNCHANGED <<run, sysPath, log, touched, last, ret, implemented, loads,
                   configError>>

\* if "extra_websites" in meta_data: for website in ...: assert "name" ...; assert "link" ...
WebsitesHold(doc) ==
    "extra_websites" \in doc.keys => ElementsHold(doc.extra_websites, WebsiteKeys)

CheckWebsites ==
    /\ pc = "extra_websites"
    /\ \/ UNCHANGED frame
       \/ \E ws \in SeqsUpTo(SUBSET WebsiteKeys, MaxItems) :
            /\ Honest(ConformingElements(ws, WebsiteKeys))
            /\ frame' = [frame EXCEPT !.meta_data.keys = @ \cup {"extra_websites"},
                                   !.meta_data.extra_websites = ws]
    /\ IF WebsitesHold(frame'.meta_data)
       THEN Pass(6, "example_loop")
       ELSE Fail(6, "") /\ UNCHANGED passed
    /\ UNCHANGED <<run, sysPath, log, touched, last, ret, implemented, loads,
                   configError>>

\* ------------------------------------------------------------ check 7
\* a bug: the loop stops one index short, range(n_examples - 1)
LoopContinues_OffByOne(f) == f.i + 1 < f.n_examples

\* for i in range(n_examples): contrib_mod.set_example_number(i)
LoopContinues(f) == f.i < f.n_examples

SetExampleNumber ==
    /\ pc = "example_loop"
    /\ LoopContinues(frame)
    /\ log' = Append(log, "set_example_number")
    /\ touched' = Append(touched, frame.i)
    /\ \/ /\ Honest(FALSE)
          /\ last' = Raised("Exception")
          /\ Fail(7, "Exception")
          /\ UNCHANGED <<frame, passed>>
       \/ /\ last' = [kind |-> "value", parts |-> <<>>]
          /\ frame' = [frame EXCEPT !.i = @ + 1]
          /\ Goto("example_loop")
    /\ UNCHANGED <<run, sysPath, ret, implemented, loads, configError>>

LoopExit ==
    /\ pc = "example_loop"
    /\ ~LoopContinues(frame)
    /\ Pass(7, "licence")
    /\ UNCHANGED <<run, sysPath, frame, log, touched, last, ret, implemented, loads,
                   configError>>

\* ------------------------------------------------------------ check 8
\* assert os.stat(f"{contrib_sub_folder}/LICENCE").st_size != 0, "LICENCE file ..."
LicenceSizes == {0, 1}
Check8Holds(size) == size # 0

Licence ==
    /\ pc = "licence"
    /\ log' = Append(log, "stat")
    /\ \E size \in LicenceSizes :
        \* the last answer of a contribution: one that conformed so far and
        \* conforms here is a conforming one
        /\ conforming[frame.contrib_name] <=> ConformingLicence(size)
        /\ frame' = [frame EXCEPT !.st_size = size]
    /\ IF Check8Holds(frame'.st_size)
       THEN /\ pc' = "end"
            /\ passed' = passed \cup {8}
            /\ results' = Report("passed")
            /\ UNCHANGED <<failedAt, msg>>
       ELSE Fail(8, "LICENCE file shouldn't be empty") /\ UNCHANGED passed
    /\ UNCHANGED <<run, sysPath, touched, last, ret, implemented, loads, configError>>

Next ==
    \/ StartTest
    \/ PreBuild
    \/ ListDir
    \/ Check1
    \/ Check2
    \/ Import
    \/ Check3
    \/ SetExampleNumber0
    \/ SuggestedModel
    \/ Data
    \/ Forward
    \/ Assert4
    \/ ForwardWithJacobian
    \/ Jacobian
    \/ PlotModel
    \/ PlotData
    \/ LoadMetadata
    \/ CheckRequiredKeys
    \/ CheckExamples
    \/ CheckCitation
    \/ CheckContacts
    \/ CheckWebsites
    \/ SetExampleNumber
    \/ LoopExit
    \/ Licence

Spec == Init /\ [][Next]_vars

\* ------------------------------------------------------------- claims
Cur == frame.contrib_name
InTest == pc # "idle"
Ended == pc = "end"
Verdict == results[Cur]
Checks == 1..8
RunOver == pc \in {"idle", "end"} /\ todo = {}
\* the calls of check 7: every set_example_number call after the one of check 4
Check7Calls == IF touched = <<>> THEN <<>> ELSE Tail(touched)
MissingArtifacts == {f \in Range(required_files) : f \notin frame.names}

\* the calls of a complete test, in the order of the source
CallOrder ==
    <<"listdir", "import", "set_example_number", "suggested_model", "data", "forward",
      "forward_with_jacobian", "jacobian", "plot_model", "plot_data", "metadata">>
ExpectedCall(j) ==
    IF j <= Len(CallOrder) THEN CallOrder[j]
    ELSE IF j <= Len(CallOrder) + frame.n_examples THEN "set_example_number"
    ELSE "stat"
\* the numbered check a call belongs to
CheckOfCall(j) ==
    IF j = 1 THEN 1 ELSE IF j = 2 THEN 3 ELSE IF j <= 6 THEN 4 ELSE IF j <= 10 THEN 5
    ELSE IF j = 11 THEN 6 ELSE IF j <= Len(CallOrder) + frame.n_examples THEN 7 ELSE 8
\* what it means for a numbered check to have passed, read off the contribution
CheckMet(k) ==
    CASE k = 1 -> MainFile \in frame.names
      [] k = 2 -> MissingArtifacts = {}
      [] k = 3 -> ConformingModule(frame.has_all, frame.all)
      [] k = 4 -> /\ ConformingArray(ret.suggested_model)
                  /\ ConformingArray(ret.data)
                  /\ ConformingArray(ret.forward)
      [] k = 5 -> pc = "metadata" =>
                    last.kind = "NotImplementedError" \/ last = Returned("figure")
      [] k = 6 -> /\ frame.meta_data.kind = "mapping"
                  /\ Range(RequiredKeys) \subseteq frame.meta_data.keys
                  /\ ConformingElements(frame.meta_data.examples, ExampleKeys)
      [] k = 7 -> Len(Check7Calls) = frame.n_examples
      [] k = 8 -> ConformingLicence(frame.st_size)

\* C1: test_contrib runs checks 1 to 8 in strict sequence and stops at the first
\* failure: every call the test makes is the next one of the source order and is
\* made only after every earlier check passed, a check counts as passed only if
\* the contribution meets it, a failed check ends the test as failed, and the
\* test is reported passed exactly when all eight checks passed.  The module is
\* not imported when check 1 or 2 fails and no entry point runs when check 3 fails.
C1_StrictSequence ==
    InTest =>
        /\ \A j \in 1..Len(log) :
            /\ log[j] = ExpectedCall(j)
            /\ \A k \in 1..(CheckOfCall(j) - 1) : k \in passed
        /\ \A k \in passed : CheckMet(k) /\ \A m \in 1..(k - 1) : m \in passed
        /\ failedAt # 0 =>
            /\ Ended /\ Verdict = "failed"
            /\ failedAt \notin passed
            /\ \A m \in 1..(failedAt - 1) : m \in passed
        /\ (Verdict = "passed") <=> (passed = Checks)
        /\ Verdict = "passed" => Ended
        /\ failedAt \in {1, 2} => "import" \notin Range(log)
        /\ failedAt = 3 => Range(log) \subseteq {"listdir", "import"}
C1_Witness ==
    /\ Ended /\ failedAt = 3 /\ frame.has_all
    /\ "forward" \notin frame.all
    /\ log = <<"listdir", "import">>

\* C2 (as claimed): a contribution missing any of the four required artifacts
\* fails with an error naming a missing artifact, whether or not the main source
\* file is present.
C2_Claim ==
    (Ended /\ frame.listed /\ MissingArtifacts # {}) =>
        Verdict = "failed" /\ msg \in MissingArtifacts

\* C2 (amended): such a contribution always fails and never reaches the import;
\* with the main source file present the failure is check 2's and names the
\* first missing artifact in the order README.md, LICENCE, metadata.yml,
\* __init__.py; with the main source file absent the failure is check 1's bare
\* assertion, which names no artifact.
C2_MissingArtifact ==
    (InTest /\ frame.listed /\ MissingArtifacts # {}) =>
        /\ pc \in {"check1", "check2", "end"}
        /\ Verdict # "passed"
        /\ Ended =>
            /\ Verdict = "failed"
            /\ IF MainFile \in frame.names
               THEN /\ failedAt = 2
                    /\ \E j \in 1..Len(required_files) :
                        /\ msg = required_files[j]
                        /\ msg \in MissingArtifacts
                        /\ \A k \in 1..(j - 1) : required_files[k] \in frame.names
               ELSE failedAt = 1 /\ msg = ""
C2_Witness ==
    /\ Ended /\ MainFile \in frame.names
    /\ MissingArtifacts = {"LICENCE", "__init__.py"}
    /\ msg = "LICENCE"

RequiredFunctions == {"suggested_model", "data", "forward"}
ScalarReturned == \E f \in RequiredFunctions : ret[f] \in Values \ {"array"}

\* C3: when suggested_model(), data() or forward(model) returns a value that is
\* not array-like, the contribution is never reported passed: check 4 does not
\* pass and no optional probe is reached, whatever the other entry points did.
C3_ScalarFails ==
    (InTest /\ ScalarReturned) =>
        /\ Verdict # "passed"
        /\ 4 \notin passed
        /\ pc \in {"data", "forward", "assert4", "end"}
        /\ Ended => Verdict = "failed" /\ failedAt = 4
C3_Witness ==
    /\ Ended /\ failedAt = 4 /\ msg = ""
    /\ ret.suggested_model = "scalar" /\ ret.data = "array" /\ ret.forward = "array"

Probes == {"forward_with_jacobian", "jacobian", "plot_model", "plot_data"}
ProbeNext(p) ==
    CASE p = "forward_with_jacobian" -> "jacobian"
      [] p = "jacobian" -> "plot_model"
      [] p = "plot_model" -> "plot_data"
      [] p = "plot_data" -> "metadata"
ProbeContract(p, r) ==
    CASE p = "forward_with_jacobian" -> ConformingPair(r)
      [] p = "jacobian" -> r.kind = "value" /\ ConformingArray(r.parts[1])
      [] p \in {"plot_model", "plot_data"} ->
            r.kind = "value" /\ ConformingFigure(r.parts[1])
ProbeStep ==
    pc \in Probes =>
        /\ log' = Append(log, pc)
        /\ \/ pc' = ProbeNext(pc)
           \/ pc' = "end" /\ results'[Cur] = "failed" /\ failedAt' = 5
        /\ (pc' = ProbeNext(pc)) <=>
              (last'.kind = "NotImplementedError" \/ ProbeContract(pc, last'))
        /\ last'.kind = "NotImplementedError" =>
              results' = results /\ msg' = msg /\ failedAt' = failedAt

\* C4: each optional probe is called when the test reaches it, and the test goes
\* on to the next step exactly when the call raised NotImplementedError (nothing
\* is reported then) or returned a value meeting its contract (two array-likes,
\* an array-like, a figure, a figure); every other outcome fails the test at
\* check 5.
C4_OptionalProbes == [][ProbeStep]_vars
C4_Witness ==
    /\ pc = "metadata" /\ 5 \in passed
    /\ implemented /\ last.kind = "NotImplementedError"
    /\ log[Len(log)] = "plot_data"

\* the calls of check 7 so far are set_example_number(0), (1), ... in this order,
\* each once, none beyond the declared count, none after one that raised
CallFailed == Ended /\ last.kind = "Exception"
Check7Shape ==
    /\ \A j \in 1..Len(Check7Calls) : Check7Calls[j] = j - 1
    /\ Len(Check7Calls) <= frame.n_examples
    /\ IF CallFailed
       THEN failedAt = 7 /\ Len(Check7Calls) = frame.i + 1
       ELSE failedAt # 7 /\ Len(Check7Calls) = frame.i
    /\ (7 \in passed) <=>
          (~CallFailed /\ Len(Check7Calls) = frame.n_examples
             /\ pc \in {"licence", "end"})
\* the end-to-end scenario: two declared examples, a non-empty LICENCE and no
\* failing call give a pass that touched set_example_number(0) and (1)
Check7Scenario ==
    (Ended /\ 7 \in passed /\ frame.n_examples = 2 /\ ConformingLicence(frame.st_size))
        => Verdict = "passed" /\ Check7Calls = <<0, 1>>

\* C5 (as claimed): after checks 1 to 6 passed, check 7 calls
\* set_example_number(i) for every i below the declared count, once each and in
\* ascending order, and validation fails if and only if one of these calls fails.
C5_Claim ==
    (InTest /\ (1..6) \subseteq passed) =>
        /\ Check7Shape
        /\ Check7Scenario
        /\ Ended => ((Verdict = "failed") <=> CallFailed)

\* C5 (amended): the same calls in the same order; check 7 fails if and only if
\* one of these calls fails, and validation fails if and only if one of these
\* calls fails or the LICENCE file is empty (check 8).
C5_ExampleLoop ==
    (InTest /\ (1..6) \subseteq passed) =>
        /\ Check7Shape
        /\ Check7Scenario
        /\ Ended => ((Verdict = "failed") <=> (CallFailed \/ frame.st_size = 0))
        /\ Ended => ((Verdict = "passed") <=>
                        (~CallFailed /\ ConformingLicence(frame.st_size)))
C5_Witness ==
    /\ Ended /\ Verdict = "passed"
    /\ frame.n_examples = 2 /\ touched = <<0, 0, 1>>
    /\ ~implemented
    /\ frame.names = Range(required_files) \cup {MainFile}
    /\ frame.all = Range(std_funcs)

MetadataRead == frame.meta_data.kind = "mapping" /\ pc # "required_keys"
LacksRequiredKey ==
    MetadataRead /\ \E k \in Range(RequiredKeys) : k \notin frame.meta_data.keys
LacksExampleKey ==
    \E j \in 1..Len(frame.meta_data.examples) :
        \E k \in ExampleKeys : k \notin frame.meta_data.examples[j]

\* C6: a metadata document that lacks a required top-level key, or an example
\* record of which lacks description, model_dimension or data_dimension, fails
\* the test at check 6: check 7 makes no set_example_number call (the only one of
\* the test is check 4's set_example_number(0)) and the LICENCE is never examined.
C6_SchemaBeforeExamples ==
    (InTest /\ (LacksRequiredKey \/ LacksExampleKey)) =>
        /\ Ended /\ Verdict = "failed" /\ failedAt = 6
        /\ touched = <<0>>
        /\ "stat" \notin Range(log)
        /\ frame.st_size = -1
C6_Witness ==
    /\ Ended /\ failedAt = 6
    /\ Len(frame.meta_data.examples) = 2
    /\ frame.meta_data.examples[1] = ExampleKeys
    /\ frame.meta_data.examples[2] = ExampleKeys \ {"model_dimension"}

Malformed(section, subkeys) ==
    /\ section \in frame.meta_data.keys
    /\ \E j \in 1..Len(frame.meta_data[section]) :
          \E k \in subkeys : k \notin frame.meta_data[section][j]
SomeMalformed ==
    \/ "citation" \in frame.meta_data.keys /\ "doi" \notin frame.meta_data.citation
    \/ Malformed("contacts", {"name", "email"})
    \/ Malformed("extra_websites", {"name", "link"})

C8_Independent ==
    /\ (pc \in {"idle", "end"} /\ ~ENABLED StartTest) =>
          \A c \in contribs : results[c] # "none"
    /\ \A c \in contribs :
          (results[c] = "none") <=> (c \in todo \/ (c = Cur /\ ~Ended))
    /\ ArgvValid(argv) =>
          \A c \in contribs :
              results[c] # "none" =>
                  results[c] = IF conforming[c] THEN "passed" ELSE "failed"
C8_Witness ==
    /\ Ended /\ todo = {} /\ Verdict = "passed"
    /\ \E c \in contribs : results[c] = "failed"

\* C9: an invalid build-phase argument is a configuration error raised before any
\* contribution is checked: no listing, import or call is made, and the error is
\* reported, for every number of contributions, zero included; an absent argument
\* or pre selects pre-packaging mode and post selects post-packaging mode.
C9_Claim ==
    /\ ~ArgvValid(argv) => log = <<>> /\ loads = 0 /\ sysPath = SysPath0
    /\ (RunOver /\ ~ArgvValid(argv)) => configError
    /\ (InTest /\ pc # "pre_build" /\ ArgvValid(argv)) =>
          (frame.pre_build <=> (Len(argv) = 1 \/ argv[Len(argv)] = "pre"))

\* C10 (as claimed): over a whole run in pre-packaging mode exactly one entry is
\* inserted into sys.path, however many contributions are loaded; post-packaging
\* mode leaves it unchanged.
C10_Claim ==
    /\ loads > 0 =>
          Len(sysPath) = Len(SysPath0) + (IF PreBuildValue(argv) THEN 1 ELSE 0)
    /\ loads = 0 => sysPath = SysPath0
PathStep ==
    IF pc = "import" /\ frame.pre_build
    THEN /\ {1, 2} \subseteq passed
         /\ Len(sysPath') = Len(sysPath) + 1
         /\ sysPath'[1] = sysPath[1]
         /\ sysPath'[2] = CONTRIB_FOLDER
         /\ \A j \in 2..Len(sysPath) : sysPath'[j + 1] = sysPath[j]
    ELSE sysPath' = sysPath

\* C10 (amended): sys.path changes only at the module-loading step of a test in
\* pre-packaging mode, which is reached only after checks 1 and 2 passed, and
\* each such step inserts one entry, the contributions root, at index 1, keeping
\* every other entry in place: one insertion per contribution loaded, never a
\* removal; post-packaging mode leaves sys.path unchanged.
C10_PathInsertion == [][PathStep]_vars
C10_Witness ==
    /\ RunOver /\ loads = 2
    /\ sysPath = <<SysPath0[1], CONTRIB_FOLDER, CONTRIB_FOLDER, SysPath0[2]>>
====
